---------------------------- MODULE Spec2Model ----------------------------
(***************************************************************************)
(* State-machine model of the CU Nordic Ski Club site script.              *)
(*                                                                         *)
(* Two builds of the script exist: src/script.js (navigation, privacy      *)
(* banner, data management) and src/unnamed/part_000 (the same plus menu   *)
(* state persistence, forms, content filter and image gallery).  The       *)
(* variable build says which of the two the page runs.                     *)
(*                                                                         *)
(* Time: Date.now() is counted in ticks of 100 ms, so that every duration  *)
(* of the source (100, 300, 1000, 2000, 5000, 3600000, 86400000 and        *)
(* 31536000000 ms) is a whole number of ticks that fits a 32-bit integer.  *)
(*                                                                         *)
(* Strings held by form fields are sequences of one-character strings.     *)
(* A string kept in localStorage is represented by what JSON.parse makes   *)
(* of it (see Text below).                                                 *)
(***************************************************************************)
EXTENDS Integers, Sequences, FiniteSets, TLC

VARIABLES
    build,          \* "script" (src/script.js) or "part000" (src/unnamed/part_000)
    storageMode,    \* "ok", "full" (setItem throws) or "denied" (every access throws)
    now,            \* Date.now(), in ticks of 100 ms
    innerWidth,     \* window.innerWidth
    localStorage,   \* function: present key -> stored text
    page,           \* "loading" (before DOMContentLoaded) or "ready"
    nav,            \* presentation flags of the mobile menu
    announced,      \* text of the last screen-reader announcement (script.js)
    notice,         \* the privacy banner element
    hasAccepted,    \* what getPrivacyConsent returned to PrivacyController.init
    timers,         \* pending setTimeout callbacks, in the order they were set
    fields,         \* form id -> sequence of current field values
    errors,         \* form id -> error state of its fields and error-message elements
    successNotices, \* form id -> number of success notices in the form
    restoredNotice, \* form id -> number of restored-data notices in the form
    focus,          \* the field a handler gave keyboard focus, "" once it is left
    advances,       \* how many times the clock has been advanced
    pageLog,        \* the user actions seen since this document was loaded
    lastEvent,      \* the event handled last, with what it observed
    overlays,       \* the lightbox overlays in the document, oldest first
    keyHandlers,    \* document keydown listeners added after construction, in order
    nextId,         \* how many overlays and modals this document has created
    shown,          \* filterable item -> whether its display is '' (not 'none')
    query,          \* value of the #content-filter input
    liveRegion,     \* text of the content filter's live region
    modals          \* the stored-data modals in the document, oldest first

envVars  == <<build, storageMode, innerWidth>>
navVars  == <<nav, announced>>
privVars == <<notice, hasAccepted>>
formVars == <<fields, errors, successNotices, restoredNotice>>
uiVars   == <<overlays, keyHandlers, nextId, shown, query, liveRegion, modals>>
vars == <<build, storageMode, now, innerWidth, localStorage, page, nav,
          announced, notice, hasAccepted, timers, fields, errors,
          successNotices, restoredNotice, focus, advances, pageLog,
          lastEvent, overlays, keyHandlers, nextId, shown, query, liveRegion,
          modals>>

----------------------------------------------------------------------------
(* Durations of the source, in ticks of 100 ms.                            *)

ConsentMaxAge == 315360000      \* 31536000000 ms: consent expires after 1 year
MenuMaxAge == 36000             \* 3600000 ms: menu state is restored for 1 hour
DraftMaxAge == 864000           \* 86400000 ms: a draft is restored for 24 hours
ShowDelayScript == 1            \* 100 ms before the banner gets 'visible' (script.js)
ShowDelayPart == 10             \* 1000 ms before the banner gets 'visible' (part_000)
HideDelay == 3                  \* 300 ms before the banner gets 'hidden' (script.js)
ResetDelay == 20                \* 2000 ms between a successful submit and form.reset()
NoticeLife == 50                \* 5000 ms life of a success or restored-data notice
MobileBreakpoint == 768         \* widest viewport that counts as mobile

\* The time of the first page load: later than every expiry period.
Epoch0 == 2 * ConsentMaxAge

----------------------------------------------------------------------------
(* JavaScript values that come out of JSON.parse.  One record shape for    *)
(* every type, so that any two values can be compared.                     *)

JV(t, n, b, s) == [t |-> t, n |-> n, b |-> b, s |-> s]
Undefined == JV("undefined", 0, FALSE, "")
Null == JV("null", 0, FALSE, "")
Num(x) == JV("number", x, FALSE, "")
Bool(x) == JV("boolean", 0, x, "")
Str(x) == JV("string", 0, FALSE, x)

\* ToBoolean: what `if (v)`, `!v` and `a && v` make of a value.
Truthy(v) ==
    CASE v.t = "boolean" -> v.b
      [] v.t = "number" -> v.n # 0
      [] v.t = "string" -> v.s # ""
      [] OTHER -> FALSE

\* `Date.now() - timestamp < limit`: ToNumber(null) is 0, ToNumber(true) is 1,
\* undefined and a non-numeric string give NaN, and NaN < limit is false.
AgeBelow(t, timestamp, limit) ==
    CASE timestamp.t = "number" -> t - timestamp.n < limit
      [] timestamp.t = "null" -> t - 0 < limit
      [] timestamp.t = "boolean" -> t - (IF timestamp.b THEN 1 ELSE 0) < limit
      [] OTHER -> FALSE

----------------------------------------------------------------------------
(* Stored texts.  p tells what JSON.parse does with the text:              *)
(*   "empty"  the empty string (falsy: the readers skip it)                *)
(*   "bad"    not JSON: JSON.parse throws SyntaxError                      *)
(*   "null"   the JSON text null: destructuring it throws TypeError        *)
(*   "scalar" a JSON number: destructuring it yields undefined properties  *)
(*   "object" a JSON object, kept as the four properties the readers use   *)
(* data is the draft's map: k is "map" (m: field name -> string),          *)
(* "undefined" (no such property), "null" or "string".                     *)

NoMap == [k |-> "undefined", m |-> <<>>]
DataMap(m) == [k |-> "map", m |-> m]
Text(p, accepted, isOpen, data, timestamp) ==
    [p |-> p, accepted |-> accepted, isOpen |-> isOpen, data |-> data,
     timestamp |-> timestamp]
EmptyText == Text("empty", Undefined, Undefined, NoMap, Undefined)
BadText == Text("bad", Undefined, Undefined, NoMap, Undefined)
NullText == Text("null", Undefined, Undefined, NoMap, Undefined)
ScalarText == Text("scalar", Undefined, Undefined, NoMap, Undefined)

\* JSON.stringify({ accepted, timestamp: Date.now() })
ConsentText(accepted, t) == Text("object", accepted, Undefined, NoMap, Num(t))
\* JSON.stringify({ isOpen, timestamp: Date.now() })
MenuText(isOpen, t) == Text("object", Undefined, isOpen, NoMap, Num(t))
\* JSON.stringify({ data: formData, timestamp: Date.now() })
DraftText(m, t) == Text("object", Undefined, Undefined, DataMap(m), Num(t))

\* `const { a, b } = JSON.parse(text)` throws for a text that is not JSON and
\* for null; `if (text)` skips the empty string before that.
ParseThrows(text) == text.p \in {"bad", "null"}
Prop(text, name) ==
    IF text.p # "object" THEN Undefined
    ELSE CASE name = "accepted" -> text.accepted
           [] name = "isOpen" -> text.isOpen
           [] name = "timestamp" -> text.timestamp

----------------------------------------------------------------------------
(* localStorage.  In mode "denied" every access throws (storage disabled), *)
(* in mode "full" setItem throws (quota exceeded).  Each caller wraps its  *)
(* access in try/catch, so a throw leaves the store as it was.             *)

Has(ls, k) == k \in DOMAIN ls
Put(ls, k, v) == [x \in DOMAIN ls \cup {k} |-> IF x = k THEN v ELSE ls[x]]
Del(ls, k) == [x \in DOMAIN ls \ {k} |-> ls[x]]
NoItems == [x \in {} |-> EmptyText]

setItem(ls, mode, k, v) == IF mode = "ok" THEN Put(ls, k, v) ELSE ls
removeItem(ls, mode, k) == IF mode = "denied" THEN ls ELSE Del(ls, k)
\* getItem with the caller's falsy test: TRUE when the caller goes on to parse.
Readable(ls, mode, k) == mode # "denied" /\ Has(ls, k) /\ ls[k].p # "empty"

\* A storage key that is the same for every form.
FormKey_Shared(f) == "formData_"

FormKey(f) == "formData_" \o f

----------------------------------------------------------------------------
(* NavigationController                                                    *)

NavClosed == [show |-> FALSE, active |-> FALSE, expanded |-> "false", overflow |-> ""]
NavOpen == [show |-> TRUE, active |-> TRUE, expanded |-> "true", overflow |-> "hidden"]

saveMenuState(ls, mode, isOpen, t) == setItem(ls, mode, "menuState", MenuText(Bool(isOpen), t))

\* An openMenu that leaves the page scrollable.
openMenu_NoScrollLock(b, ls, mode, t, said) ==
    [nav |-> [NavOpen EXCEPT !.overflow = ""],
     ls |-> IF b = "part000" THEN saveMenuState(ls, mode, TRUE, t) ELSE ls,
     said |-> IF b = "script" THEN "Navigation menu opened" ELSE said]

\* A closeMenu that does not save.
closeMenu_NoSave(b, ls, mode, t, said) ==
    [nav |-> NavClosed, ls |-> ls,
     said |-> IF b = "script" THEN "Navigation menu closed" ELSE said]

\* openMenu / closeMenu: the new flags, the store after the save (part_000) and
\* the announcement (script.js).
openMenu(b, ls, mode, t, said) ==
    [nav |-> NavOpen,
     ls |-> IF b = "part000" THEN saveMenuState(ls, mode, TRUE, t) ELSE ls,
     said |-> IF b = "script" THEN "Navigation menu opened" ELSE said]

closeMenu(b, ls, mode, t, said) ==
    [nav |-> NavClosed,
     ls |-> IF b = "part000" THEN saveMenuState(ls, mode, FALSE, t) ELSE ls,
     said |-> IF b = "script" THEN "Navigation menu closed" ELSE said]

\* The condition of loadMenuState without the test of the viewport width.
RestoresMenu_AnyWidth(ls, mode, t, width) ==
    /\ Readable(ls, mode, "menuState")
    /\ ~ParseThrows(ls["menuState"])
    /\ AgeBelow(t, Prop(ls["menuState"], "timestamp"), MenuMaxAge)
    /\ Truthy(Prop(ls["menuState"], "isOpen"))

\* The condition under which loadMenuState calls openMenu.
RestoresMenu(ls, mode, t, width) ==
    /\ Readable(ls, mode, "menuState")
    /\ ~ParseThrows(ls["menuState"])
    /\ AgeBelow(t, Prop(ls["menuState"], "timestamp"), MenuMaxAge)
    /\ width <= MobileBreakpoint
    /\ Truthy(Prop(ls["menuState"], "isOpen"))

\* loadMenuState, called by init of part_000 on a closed menu; init of
\* script.js restores nothing.
loadMenuState(b, ls, mode, t, width, said) ==
    IF b = "part000" /\ RestoresMenu(ls, mode, t, width)
    THEN openMenu(b, ls, mode, t, said)
    ELSE [nav |-> NavClosed, ls |-> ls, said |-> said]

----------------------------------------------------------------------------
(* PrivacyController                                                       *)

NoticeInitial(b) == [visible |-> FALSE, ariaHidden |-> "true", hidden |-> (b = "script")]

Timer(cb, due, f) == [cb |-> cb, due |-> due, form |-> f]

\* getPrivacyConsent without the expiry test.
getPrivacyConsent_NoExpiry(ls, mode, t) ==
    IF ~Readable(ls, mode, "privacyConsent") THEN Bool(FALSE)
    ELSE IF ParseThrows(ls["privacyConsent"]) THEN Bool(FALSE)
    ELSE Prop(ls["privacyConsent"], "accepted")

getPrivacyConsent(ls, mode, t) ==
    IF ~Readable(ls, mode, "privacyConsent") THEN Bool(FALSE)
    ELSE IF ParseThrows(ls["privacyConsent"]) THEN Bool(FALSE)
    ELSE IF AgeBelow(t, Prop(ls["privacyConsent"], "timestamp"), ConsentMaxAge)
         THEN Prop(ls["privacyConsent"], "accepted")
         ELSE Bool(FALSE)

setPrivacyConsent(ls, mode, accepted, t) ==
    setItem(ls, mode, "privacyConsent", ConsentText(Bool(accepted), t))

\* showNotice: script.js removes 'hidden' at once and adds 'visible' after
\* 100 ms; part_000 adds 'visible' after 1000 ms.
showNotice(b, n, t) ==
    [notice |-> IF b = "script" THEN [n EXCEPT !.hidden = FALSE] ELSE n,
     timers |-> << Timer("showNotice",
                         t + (IF b = "script" THEN ShowDelayScript ELSE ShowDelayPart),
                         "") >>]

\* PrivacyController.init that shows the banner whatever the consent.
privacyInit_AlwaysShow(b, ls, mode, t) ==
    [got |-> getPrivacyConsent(ls, mode, t)] @@ showNotice(b, NoticeInitial(b), t)

\* PrivacyController.init on the banner as the document delivers it.
privacyInit(b, ls, mode, t) ==
    LET got == getPrivacyConsent(ls, mode, t) IN
    IF ~Truthy(got)
    THEN [got |-> got] @@ showNotice(b, NoticeInitial(b), t)
    ELSE [got |-> got,
          notice |-> IF b = "script" THEN [NoticeInitial(b) EXCEPT !.hidden = TRUE]
                     ELSE NoticeInitial(b),
          timers |-> <<>>]

\* acceptPrivacy
acceptPrivacy(b, ls, mode, n, t) ==
    [ls |-> setPrivacyConsent(ls, mode, TRUE, t),
     notice |-> [n EXCEPT !.visible = FALSE, !.ariaHidden = "true"],
     timers |-> IF b = "script" THEN << Timer("hideNotice", t + HideDelay, "") >> ELSE <<>>]

----------------------------------------------------------------------------
(* Strings of form fields, as sequences of characters.                     *)

Digits == {"0", "1", "2", "3", "4", "5", "6", "7", "8", "9"}
IsSpace(c) == c = " "

RECURSIVE TrimStart(_)
TrimStart(s) == IF s # <<>> /\ IsSpace(Head(s)) THEN TrimStart(Tail(s)) ELSE s
RECURSIVE TrimEnd(_)
TrimEnd(s) ==
    IF s # <<>> /\ IsSpace(s[Len(s)]) THEN TrimEnd(SubSeq(s, 1, Len(s) - 1)) ELSE s
\* String.prototype.trim
Trim(s) == TrimEnd(TrimStart(s))

\* [^\s@]+ : a non-empty run without whitespace and without '@'
Run(s) == s # <<>> /\ \A k \in 1..Len(s) : ~IsSpace(s[k]) /\ s[k] # "@"

\* A pattern that asks for no dot after the '@'.
emailRegex_NoTld(s) ==
    \E i \in 1..Len(s) :
        s[i] = "@" /\ Run(SubSeq(s, 1, i - 1)) /\ Run(SubSeq(s, i + 1, Len(s)))

\* /^[^\s@]+@[^\s@]+\.[^\s@]+$/
emailRegex(s) ==
    \E i \in 1..Len(s) : \E j \in 1..Len(s) :
        /\ i < j
        /\ s[i] = "@"
        /\ s[j] = "."
        /\ Run(SubSeq(s, 1, i - 1))
        /\ Run(SubSeq(s, i + 1, j - 1))
        /\ Run(SubSeq(s, j + 1, Len(s)))

\* /^[\d\s\-\(\)]+$/
phoneRegex(s) ==
    s # <<>> /\ \A k \in 1..Len(s) : s[k] \in Digits \cup {" ", "-", "(", ")"}

----------------------------------------------------------------------------
(* The forms of the page.  A field is described by its attributes; typed   *)
(* is the set of values a user enters into it.  minlength 0 stands for a   *)
(* field without the attribute.  tag1 and tag2 share a name and a parent   *)
(* element (the user leaves both as they are); send is the                 *)
(* submit button, an input of type submit.  The support form has a         *)
(* required message, a required e-mail contact and an optional telephone   *)
(* field named phone, each with a minimum length.                          *)

Field(id, name, type, required, minlength, parent, default, typed) ==
    [id |-> id, name |-> name, type |-> type, required |-> required,
     minlength |-> minlength, parent |-> parent, default |-> default,
     typed |-> typed]

Forms == {"join-form", "support-form"}

JoinFields ==
    << Field("name", "name", "text", TRUE, 2, "g-name", <<>>, {<<>>, <<"a", "b">>}),
       Field("email", "email", "email", FALSE, 0, "g-email", <<>>,
             {<<>>, <<"a", "@", "b">>}),
       Field("tag1", "tag", "text", FALSE, 0, "g-tag", <<>>, {}),
       Field("tag2", "tag", "text", FALSE, 0, "g-tag", <<"y">>, {}),
       Field("send", "send", "submit", FALSE, 0, "g-send", <<"S">>, {}) >>
SupportFields ==
    << Field("message", "message", "textarea", TRUE, 2, "g-message", <<>>,
             {<<>>, <<" ">>, <<"h">>, <<"h", "i">>, <<"<", "b", ">">>}),
       Field("contact", "contact", "email", TRUE, 6, "g-contact", <<>>,
             {<<>>, <<"a", "@", "b">>, <<"a", "@", "b", ".", "c">>,
              <<"a", "@", "b", ".", "c", "o", "m">>,
              <<" ", "a", "@", "b", ".", "c", "o", "m", " ">>}),
       Field("phone", "phone", "tel", FALSE, 3, "g-phone", <<"1", "2", "3">>,
             {<<>>, <<"1", "a">>, <<"1", "2">>, <<"1", "2", "3">>,
              <<"(", "1", ")", " ", "2", "-", "3">>}),
       Field("ext", "ext", "text", FALSE, 0, "g-phone", <<>>, {}) >>
FormFields(f) == IF f = "join-form" THEN JoinFields ELSE SupportFields

FieldIdx(f) == 1..Len(FormFields(f))
Parents(f) == {FormFields(f)[i].parent : i \in FieldIdx(f)}
Defaults(f) == [i \in FieldIdx(f) |-> FormFields(f)[i].default]

\* A field without error state, and a parent without an error-message element.
NoFieldError == [error |-> FALSE, invalid |-> FALSE, describedby |-> ""]
NoMessage == [exists |-> FALSE, text |-> "", visible |-> FALSE, id |-> ""]
NoErrors(f) == [fld |-> [i \in FieldIdx(f) |-> NoFieldError],
                msg |-> [p \in Parents(f) |-> NoMessage]]

\* showError(input, message)
showError(f, i, message, e) ==
    LET d == FormFields(f)[i] IN
    [fld |-> [e.fld EXCEPT ![i] = [error |-> TRUE, invalid |-> TRUE,
                                   describedby |-> d.id \o "-error"]],
     msg |-> [e.msg EXCEPT ![d.parent] = [exists |-> TRUE, text |-> message,
                                          visible |-> TRUE, id |-> d.id \o "-error"]]]

\* A clearError that leaves aria-invalid on the field.
clearError_KeepsInvalid(f, i, e) ==
    LET d == FormFields(f)[i] IN
    [fld |-> [e.fld EXCEPT ![i] = [error |-> FALSE, invalid |-> @.invalid,
                                   describedby |-> ""]],
     msg |-> [e.msg EXCEPT ![d.parent].visible = FALSE]]

\* clearError(input)
clearError(f, i, e) ==
    LET d == FormFields(f)[i] IN
    [fld |-> [e.fld EXCEPT ![i] = NoFieldError],
     msg |-> [e.msg EXCEPT ![d.parent].visible = FALSE]]

\* The message of the first rule of validateField that the field fails, ""
\* when it passes all of them.
Failure(d, raw) ==
    LET value == Trim(raw) IN
    IF d.required /\ value = <<>> THEN "This field is required"
    ELSE IF d.type = "email" /\ value # <<>> /\ ~emailRegex(value)
         THEN "Please enter a valid email address"
    ELSE IF d.name = "phone" /\ value # <<>> /\ ~phoneRegex(value)
         THEN "Please enter a valid phone number"
    ELSE IF d.minlength # 0 /\ Len(value) < d.minlength
         THEN "Please enter at least " \o ToString(d.minlength) \o " characters"
    ELSE ""

\* validateField(input): the result and the error state it leaves.
validateField(f, i, vals, e) ==
    LET why == Failure(FormFields(f)[i], vals[i]) IN
    IF why = "" THEN [ok |-> TRUE, e |-> clearError(f, i, e)]
    ELSE [ok |-> FALSE, e |-> showError(f, i, why, clearError(f, i, e))]

\* inputs.forEach(input => { if (!this.validateField(input)) isValid = false })
\* over the fields from i on, in document order.
RECURSIVE validateAll(_, _, _, _)
validateAll(f, i, vals, e) ==
    IF i > Len(FormFields(f)) THEN [ok |-> TRUE, e |-> e]
    ELSE LET one == validateField(f, i, vals, e)
             rest == validateAll(f, i + 1, vals, one.e)
         IN [ok |-> one.ok /\ rest.ok, e |-> rest.e]

\* A handler that focuses the last failing field instead of the first.
firstError_Last(f, e) ==
    IF \E i \in FieldIdx(f) : e.fld[i].error
    THEN CHOOSE i \in FieldIdx(f) :
            e.fld[i].error /\ \A k \in FieldIdx(f) : e.fld[k].error => k <= i
    ELSE 0

\* this.form.querySelector('.error'): the first field in document order that
\* carries the class, 0 when there is none.
firstError(f, e) ==
    IF \E i \in FieldIdx(f) : e.fld[i].error
    THEN CHOOSE i \in FieldIdx(f) :
            e.fld[i].error /\ \A k \in FieldIdx(f) : e.fld[k].error => i <= k
    ELSE 0

\* The names saveFormData stores, and the value it stores under each: the
\* value of the last field of that name (formData[input.name] = input.value
\* overwrites).
SavedNames(f) ==
    {FormFields(f)[i].name : i \in {k \in FieldIdx(f) :
        FormFields(f)[k].type # "submit" /\ FormFields(f)[k].name # ""}}
LastNamed(f, n) ==
    CHOOSE i \in FieldIdx(f) :
        /\ FormFields(f)[i].name = n /\ FormFields(f)[i].type # "submit"
        /\ \A k \in FieldIdx(f) :
              FormFields(f)[k].name = n /\ FormFields(f)[k].type # "submit" => k <= i
formData(f, vals) == [n \in SavedNames(f) |-> vals[LastNamed(f, n)]]

saveFormData(f, vals, ls, mode, t) ==
    setItem(ls, mode, FormKey(f), DraftText(formData(f, vals), t))

\* this.form.querySelector(`[name="${name}"]`): the first element of the form
\* with that name, 0 when there is none.
FirstNamed(f, n) ==
    IF \E i \in FieldIdx(f) : FormFields(f)[i].name = n
    THEN CHOOSE i \in FieldIdx(f) :
            /\ FormFields(f)[i].name = n
            /\ \A k \in FieldIdx(f) : FormFields(f)[k].name = n => i <= k
    ELSE 0

\* A reader that replays a draft of any age.
DraftFresh_NoExpiry(f, ls, mode, t) ==
    /\ Readable(ls, mode, FormKey(f))
    /\ ~ParseThrows(ls[FormKey(f)])

\* loadFormData reaches the replay loop: the text is there, parses, and is
\* younger than 24 hours.
DraftFresh(f, ls, mode, t) ==
    /\ Readable(ls, mode, FormKey(f))
    /\ ~ParseThrows(ls[FormKey(f)])
    /\ AgeBelow(t, Prop(ls[FormKey(f)], "timestamp"), DraftMaxAge)

\* Object.keys(data) throws TypeError for undefined and null; the keys of a
\* string are its indices, which name no field.
KeysThrow(data) == data.k \in {"undefined", "null"}

\* The field values after the replay loop over a map.
Replay(f, vals, m) ==
    [i \in FieldIdx(f) |->
        IF FormFields(f)[i].name \in DOMAIN m /\ FirstNamed(f, FormFields(f)[i].name) = i
        THEN m[FormFields(f)[i].name]
        ELSE vals[i]]

\* loadFormData on the fields as the document delivers them: the values it
\* leaves and whether it shows the restored-data notice.
loadFormData(f, vals, ls, mode, t) ==
    IF ~DraftFresh(f, ls, mode, t) \/ KeysThrow(ls[FormKey(f)].data)
    THEN [vals |-> vals, restored |-> FALSE]
    ELSE [vals |-> IF ls[FormKey(f)].data.k = "map"
                   THEN Replay(f, vals, ls[FormKey(f)].data.m)
                   ELSE vals,
          restored |-> TRUE]

\* A submit handler that leaves the draft in the store.
clearSavedFormData_Keep(f, ls, mode) == ls

clearSavedFormData(f, ls, mode) == removeItem(ls, mode, FormKey(f))

----------------------------------------------------------------------------
(* The filterable items of the page (.filterable-item), by their text.     *)

ItemText ==
    << <<"N", "o", "r", "d", "i", "c", " ", "S", "k", "i", "i", "n", "g", " ",
         "C", "l", "u", "b">>,
       <<"T", "r", "a", "i", "l", " ", "M", "a", "p">>,
       <<"S", "k", "i", " ", "W", "a", "x", "i", "n", "g", " ", "G", "u", "i",
         "d", "e">> >>
Items == 1..Len(ItemText)

\* String.prototype.toLowerCase, on the letters the page uses.
LowerChar(c) ==
    CASE c = "C" -> "c" [] c = "G" -> "g" [] c = "M" -> "m" [] c = "N" -> "n"
      [] c = "S" -> "s" [] c = "T" -> "t" [] c = "W" -> "w" [] OTHER -> c
toLowerCase(s) == [k \in 1..Len(s) |-> LowerChar(s[k])]

\* String.prototype.includes
includes(text, term) ==
    \E k \in 0..(Len(text) - Len(term)) : SubSeq(text, k + 1, k + Len(term)) = term

\* A live region that reports the two numbers the wrong way round.
updateLiveRegion_Swapped(visible, total) ==
    "Showing " \o ToString(total) \o " of " \o ToString(visible) \o " items"

\* updateLiveRegion(visible, total)
updateLiveRegion(visible, total) ==
    "Showing " \o ToString(visible) \o " of " \o ToString(total) \o " items"

\* The loop of filterContent over the items from i on: the display of each
\* item and the running visibleCount.
RECURSIVE filterLoop(_, _, _, _)
filterLoop(term, i, sh, visibleCount) ==
    IF i > Len(ItemText) THEN [shown |-> sh, visibleCount |-> visibleCount]
    ELSE LET matches == includes(toLowerCase(ItemText[i]), term) IN
         IF matches \/ term = <<>>
         THEN filterLoop(term, i + 1, [sh EXCEPT ![i] = TRUE], visibleCount + 1)
         ELSE filterLoop(term, i + 1, [sh EXCEPT ![i] = FALSE], visibleCount)

\* filterContent(searchTerm)
filterContent(searchTerm, sh) ==
    LET term == Trim(toLowerCase(searchTerm))
        r == filterLoop(term, 1, sh, 0)
    IN [shown |-> r.shown,
        liveRegion |-> updateLiveRegion(r.visibleCount, Len(ItemText))]

----------------------------------------------------------------------------
(* Bounds of the model.                                                    *)

MaxTimers == 3      \* pending timers at a time
MaxAdvances == 2    \* clock advances in one behaviour
MaxOverlays == 3    \* overlays and modals one document creates
MaxQuery == 3       \* characters of a filter query

----------------------------------------------------------------------------
(* The page.                                                               *)

Builds == {"script", "part000"}
Modes == {"ok", "full", "denied"}

\* The forms exist in part_000 only.
FormsOf(b) == IF b = "part000" THEN Forms ELSE {}

\* An observed event: its handler ("other" for the events nothing is asked
\* of), the form it is about, its outcome, the keys the clearing that preceded
\* it found, the alert it raised, and the store as it was when it began.
Ev(op, f, ok, keys, alert, before) ==
    [op |-> op, form |-> f, ok |-> ok, keys |-> keys, alert |-> alert,
     before |-> before]

\* The document as the server delivers it, before any script has run.
FreshDocument ==
    /\ nav' = NavClosed
    /\ announced' = ""
    /\ notice' = NoticeInitial(build)
    /\ hasAccepted' = Undefined
    /\ timers' = <<>>
    /\ fields' = [f \in Forms |-> Defaults(f)]
    /\ errors' = [f \in Forms |-> NoErrors(f)]
    /\ successNotices' = [f \in Forms |-> 0]
    /\ restoredNotice' = [f \in Forms |-> 0]
    /\ focus' = ""
    /\ pageLog' = {}
    /\ overlays' = <<>>
    /\ keyHandlers' = <<>>
    /\ nextId' = 0
    /\ shown' = [i \in Items |-> TRUE]
    /\ query' = <<>>
    /\ liveRegion' = ""
    /\ modals' = <<>>

InitPage(stores, widths, builds, modes) ==
    /\ build \in builds
    /\ storageMode \in modes
    /\ now = Epoch0
    /\ innerWidth \in widths
    /\ localStorage \in stores
    /\ storageMode # "ok" => localStorage = NoItems
    /\ page = "loading"
    /\ nav = NavClosed
    /\ announced = ""
    /\ notice = NoticeInitial(build)
    /\ hasAccepted = Undefined
    /\ timers = <<>>
    /\ fields = [f \in Forms |-> Defaults(f)]
    /\ errors = [f \in Forms |-> NoErrors(f)]
    /\ successNotices = [f \in Forms |-> 0]
    /\ restoredNotice = [f \in Forms |-> 0]
    /\ focus = ""
    /\ advances = 0
    /\ pageLog = {}
    /\ lastEvent = Ev("visit", "", FALSE, {}, "", NoItems)
    /\ overlays = <<>>
    /\ keyHandlers = <<>>
    /\ nextId = 0
    /\ shown = [i \in Items |-> TRUE]
    /\ query = <<>>
    /\ liveRegion = ""
    /\ modals = <<>>

\* The restored-data timers of the forms, in the order the controllers are made.
RECURSIVE RestoredTimers(_, _, _)
RestoredTimers(fs, loaded, t) ==
    IF fs = <<>> THEN <<>>
    ELSE (IF loaded[Head(fs)].restored
          THEN << Timer("removeRestored", t + NoticeLife, Head(fs)) >> ELSE <<>>)
         \o RestoredTimers(Tail(fs), loaded, t)

\* The DOMContentLoaded handler: NavigationController, one FormController per
\* form (part_000), PrivacyController, DataManagement, in this order.
DOMContentLoaded ==
    /\ page = "loading"
    /\ LET navR == loadMenuState(build, localStorage, storageMode, now, innerWidth, "")
           loaded == [f \in Forms |->
                        IF f \in FormsOf(build)
                        THEN loadFormData(f, Defaults(f), navR.ls, storageMode, now)
                        ELSE [vals |-> Defaults(f), restored |-> FALSE]]
           privR == privacyInit(build, navR.ls, storageMode, now)
       IN /\ nav' = navR.nav
          /\ announced' = navR.said
          /\ localStorage' = navR.ls
          /\ fields' = [f \in Forms |-> loaded[f].vals]
          /\ restoredNotice' = [f \in Forms |-> IF loaded[f].restored THEN 1 ELSE 0]
          /\ notice' = privR.notice
          /\ hasAccepted' = privR.got
          /\ timers' = RestoredTimers(<<"join-form", "support-form">>, loaded, now)
                         \o privR.timers
    /\ page' = "ready"
    /\ lastEvent' = Ev("load", "", lastEvent.op = "clear" /\ lastEvent.ok,
                       IF lastEvent.op = "clear" THEN lastEvent.keys ELSE {}, "",
                       localStorage)
    /\ UNCHANGED <<uiVars, envVars, now, errors, successNotices, focus, advances, pageLog>>

\* The user reloads the page or comes back to it: the document is unloaded,
\* its timers die with it.
Reload ==
    /\ page = "ready"
    /\ page' = "loading"
    /\ FreshDocument
    /\ lastEvent' = Ev("other", "", FALSE, {}, "", NoItems)
    /\ UNCHANGED <<envVars, now, localStorage, advances>>

\* Time passes while the page is open (the time between two visits is the
\* time that passes before the reload).
Advance(d) ==
    /\ page = "ready"
    /\ advances < MaxAdvances
    /\ advances' = advances + 1
    /\ now' = now + d
    /\ lastEvent' = Ev("other", "", FALSE, {}, "", NoItems)
    /\ UNCHANGED <<uiVars, envVars, localStorage, page, navVars, privVars, timers,
                   formVars, focus, pageLog>>

\* The sequence without its k-th element.
Without(s, k) == SubSeq(s, 1, k - 1) \o SubSeq(s, k + 1, Len(s))

\* A pending timer whose delay has passed runs its callback.
TimerFire(k) ==
    /\ page = "ready"
    /\ k \in 1..Len(timers)
    /\ timers[k].due <= now
    /\ timers' = Without(timers, k)
    /\ LET tm == timers[k] IN
       /\ notice' = CASE tm.cb = "showNotice" ->
                            [notice EXCEPT !.visible = TRUE, !.ariaHidden = "false"]
                      [] tm.cb = "hideNotice" -> [notice EXCEPT !.hidden = TRUE]
                      [] OTHER -> notice
       /\ fields' = IF tm.cb = "resetForm"
                    THEN [fields EXCEPT ![tm.form] = Defaults(tm.form)] ELSE fields
       /\ successNotices' = IF tm.cb = "removeSuccess"
                            THEN [successNotices EXCEPT ![tm.form] = @ - 1]
                            ELSE successNotices
       /\ restoredNotice' = IF tm.cb = "removeRestored"
                            THEN [restoredNotice EXCEPT ![tm.form] = @ - 1]
                            ELSE restoredNotice
       /\ lastEvent' = Ev("other", "", FALSE, {}, "", NoItems)
    /\ UNCHANGED <<uiVars, envVars, now, localStorage, page, navVars, hasAccepted,
                   errors, focus, advances, pageLog>>

\* A click on the accept button of the banner: the button's listener runs
\* acceptPrivacy, then the click bubbles to the document listener of
\* NavigationController, which closes the menu (the banner is outside
\* .main-nav).
AcceptClick ==
    /\ page = "ready"
    /\ ~notice.hidden
    /\ LET acc == acceptPrivacy(build, localStorage, storageMode, notice, now)
           doc == closeMenu(build, acc.ls, storageMode, now, announced)
       IN /\ Len(timers) + Len(acc.timers) <= MaxTimers
          /\ localStorage' = doc.ls
          /\ notice' = acc.notice
          /\ timers' = timers \o acc.timers
          /\ nav' = doc.nav
          /\ announced' = doc.said
    /\ lastEvent' = Ev("accept", "", storageMode = "ok", {},
                       IF build = "script" /\ storageMode # "ok"
                       THEN "Unable to save privacy preferences. Please check your browser settings."
                       ELSE "",
                       NoItems)
    /\ pageLog' = pageLog \cup {"accept"}
    /\ UNCHANGED <<uiVars, envVars, now, page, hasAccepted, formVars, focus, advances>>

\* toggleMenu
toggleMenu(b, n, ls, mode, t, said) ==
    IF n.show THEN closeMenu(b, ls, mode, t, said) ELSE openMenu(b, ls, mode, t, said)

\* A click on .nav-toggle (inside .main-nav, so the document listener leaves
\* the menu alone), or Enter / Space on it.
ToggleClick ==
    /\ page = "ready"
    /\ LET r == toggleMenu(build, nav, localStorage, storageMode, now, announced)
       IN nav' = r.nav /\ localStorage' = r.ls /\ announced' = r.said
    /\ lastEvent' = Ev("other", "", FALSE, {}, "", NoItems)
    /\ UNCHANGED <<uiVars, envVars, now, page, privVars, timers, formVars, focus,
                   advances, pageLog>>

\* A click outside .main-nav (document click listener), or Escape (document
\* keydown listener): closeMenu.
CloseEvent ==
    /\ page = "ready"
    /\ LET r == closeMenu(build, localStorage, storageMode, now, announced)
       IN nav' = r.nav /\ localStorage' = r.ls /\ announced' = r.said
    /\ lastEvent' = Ev("other", "", FALSE, {}, "", NoItems)
    /\ UNCHANGED <<uiVars, envVars, now, page, privVars, timers, formVars, focus,
                   advances, pageLog>>
OutsideClick == CloseEvent

\* The sequence without the elements whose id is in ids.
RECURSIVE Detach(_, _)
Detach(seq, ids) ==
    IF seq = <<>> THEN <<>>
    ELSE (IF Head(seq).id \in ids THEN <<>> ELSE <<Head(seq)>>)
         \o Detach(Tail(seq), ids)

\* The thumbnails of .image-gallery (part_000), and the element ids the model
\* gives to a thumbnail and to the close controls.
Images == {1, 2}
ImagesOf(b) == IF b = "part000" THEN Images ELSE {}
Thumb(i) == "img" \o ToString(i)

\* The focus after the escape handlers hs have run in the order they were
\* added, starting from focus fc: each lightbox handler calls closeLightbox,
\* which focuses its thumbnail; a modal handler moves no focus.
RECURSIVE FocusAfter(_, _)
FocusAfter(hs, fc) ==
    IF hs = <<>> THEN fc
    ELSE FocusAfter(Tail(hs),
                    IF Head(hs).kind = "lightbox" THEN Thumb(Head(hs).index) ELSE fc)

\* Escape: the document keydown listener of NavigationController closes the
\* menu, then every escape handler a lightbox or a stored-data modal has
\* added runs, removes its overlay or modal (if it is still there) and then
\* itself.
EscapeKey ==
    /\ page = "ready"
    /\ LET r == closeMenu(build, localStorage, storageMode, now, announced)
           ids == {keyHandlers[k].id : k \in DOMAIN keyHandlers}
       IN /\ nav' = r.nav /\ localStorage' = r.ls /\ announced' = r.said
          /\ overlays' = Detach(overlays, ids)
          /\ modals' = Detach(modals, ids)
          /\ focus' = FocusAfter(keyHandlers, focus)
          /\ keyHandlers' = <<>>
    /\ lastEvent' = Ev("other", "", FALSE, {}, "", NoItems)
    /\ UNCHANGED <<envVars, now, page, privVars, timers, formVars, advances,
                   pageLog, nextId, shown, query, liveRegion>>

\* showLightbox(index): the overlay is appended to the body, its escape
\* handler is added to the document, its close button gets the focus.
showLightbox(index, ovs, hs, n) ==
    [overlays |-> Append(ovs, [id |-> n + 1, index |-> index]),
     keyHandlers |-> Append(hs, [kind |-> "lightbox", id |-> n + 1, index |-> index]),
     nextId |-> n + 1,
     focus |-> "lightbox-close"]

\* A mouse click on thumbnail i: possible only while nothing covers the page
\* (an overlay or a modal is fixed over the whole viewport).  The listener of
\* the thumbnail runs showLightbox, then the click bubbles to the document
\* listener of NavigationController (the gallery is outside .main-nav).
ThumbClick(i) ==
    /\ page = "ready"
    /\ i \in ImagesOf(build)
    /\ overlays = <<>> /\ modals = <<>>
    /\ nextId < MaxOverlays
    /\ LET r == showLightbox(i, overlays, keyHandlers, nextId)
           doc == closeMenu(build, localStorage, storageMode, now, announced)
       IN /\ overlays' = r.overlays /\ keyHandlers' = r.keyHandlers
          /\ nextId' = r.nextId /\ focus' = r.focus
          /\ nav' = doc.nav /\ localStorage' = doc.ls /\ announced' = doc.said
    /\ lastEvent' = Ev("other", "", FALSE, {}, "", NoItems)
    /\ UNCHANGED <<envVars, now, page, privVars, timers, formVars, advances,
                   pageLog, shown, query, liveRegion, modals>>

\* Enter or Space on thumbnail i, which the user has reached with the Tab key
\* (nothing keeps the focus inside an open overlay): showLightbox.
ThumbKey(i) ==
    /\ page = "ready"
    /\ i \in ImagesOf(build)
    /\ nextId < MaxOverlays
    /\ LET r == showLightbox(i, overlays, keyHandlers, nextId)
       IN /\ overlays' = r.overlays /\ keyHandlers' = r.keyHandlers
          /\ nextId' = r.nextId /\ focus' = r.focus
    /\ lastEvent' = Ev("other", "", FALSE, {}, "", NoItems)
    /\ UNCHANGED <<envVars, now, localStorage, page, navVars, privVars, timers,
                   formVars, advances, pageLog, shown, query, liveRegion, modals>>

\* closeLightbox of overlay k, then the document click listener: the click
\* that ran it started inside the overlay, outside .main-nav.
closeLightboxClick(k) ==
    /\ page = "ready"
    /\ k \in DOMAIN overlays
    /\ overlays' = Detach(overlays, {overlays[k].id})
    /\ focus' = Thumb(overlays[k].index)
    /\ LET doc == closeMenu(build, localStorage, storageMode, now, announced)
       IN nav' = doc.nav /\ localStorage' = doc.ls /\ announced' = doc.said
    /\ lastEvent' = Ev("other", "", FALSE, {}, "", NoItems)
    /\ UNCHANGED <<envVars, now, page, privVars, timers, formVars, advances,
                   pageLog, keyHandlers, nextId, shown, query, liveRegion,
                   modals>>

\* The close button of overlay k is activated (by the mouse on the topmost
\* overlay, by the keyboard on any).
CloseButtonClick(k) == closeLightboxClick(k)

\* A click on the backdrop of the topmost overlay: e.target === lightbox.
BackdropClick ==
    /\ overlays # <<>>
    /\ modals = <<>>
    /\ closeLightboxClick(Len(overlays))

\* A click on the enlarged image of the topmost overlay: the listener of the
\* overlay ignores it (e.target is the image), the document listener runs.
LightboxImageClick ==
    /\ overlays # <<>>
    /\ modals = <<>>
    /\ CloseEvent

\* The user changes the value of #content-filter to q (part_000): the input
\* listener runs filterContent.
FilterInput(q) ==
    /\ page = "ready"
    /\ build = "part000"
    /\ q # query
    /\ query' = q
    /\ LET r == filterContent(q, shown)
       IN shown' = r.shown /\ liveRegion' = r.liveRegion
    /\ lastEvent' = Ev("filter", "", TRUE, {}, "", NoItems)
    /\ UNCHANGED <<envVars, now, localStorage, page, navVars, privVars, timers,
                   formVars, focus, advances, pageLog, overlays, keyHandlers,
                   nextId, modals>>

\* Enter in #content-filter: the keydown listener runs filterContent on the
\* value the input holds.
FilterEnter ==
    /\ page = "ready"
    /\ build = "part000"
    /\ LET r == filterContent(query, shown)
       IN shown' = r.shown /\ liveRegion' = r.liveRegion
    /\ lastEvent' = Ev("filter", "", TRUE, {}, "", NoItems)
    /\ UNCHANGED <<envVars, now, localStorage, page, navVars, privVars, timers,
                   formVars, focus, advances, pageLog, overlays, keyHandlers,
                   nextId, query, modals>>

\* The window is resized to width w: the resize listener closes the menu above
\* the breakpoint.
Resize(w) ==
    /\ page = "ready"
    /\ w # innerWidth
    /\ innerWidth' = w
    /\ LET r == IF w > MobileBreakpoint
                THEN closeMenu(build, localStorage, storageMode, now, announced)
                ELSE [nav |-> nav, ls |-> localStorage, said |-> announced]
       IN nav' = r.nav /\ localStorage' = r.ls /\ announced' = r.said
    /\ lastEvent' = Ev("other", "", FALSE, {}, "", NoItems)
    /\ UNCHANGED <<uiVars, build, storageMode, now, page, privVars, timers, formVars,
                   focus, advances, pageLog>>

\* A touch on .nav-menu that ends dx pixels left of where it began
\* (script.js): closeMenu when dx exceeds the threshold.
SwipeThreshold == 50
Swipe(dx) ==
    /\ page = "ready"
    /\ build = "script"
    /\ LET r == IF dx > SwipeThreshold
                THEN closeMenu(build, localStorage, storageMode, now, announced)
                ELSE [nav |-> nav, ls |-> localStorage, said |-> announced]
       IN nav' = r.nav /\ localStorage' = r.ls /\ announced' = r.said
    /\ lastEvent' = Ev("other", "", FALSE, {}, "", NoItems)
    /\ UNCHANGED <<uiVars, envVars, now, page, privVars, timers, formVars, focus,
                   advances, pageLog>>

\* handleSubmit: the outcome, the error state, the store, the timers it sets,
\* the success notices it adds and the field it focuses (0: none).
handleSubmit(f, vals, e, ls, mode, t) ==
    LET v == validateAll(f, 1, vals, e) IN
    IF v.ok
    THEN [ok |-> TRUE, e |-> v.e, ls |-> clearSavedFormData(f, ls, mode),
          timers |-> << Timer("removeSuccess", t + NoticeLife, f),
                        Timer("resetForm", t + ResetDelay, f) >>,
          success |-> 1, focusOn |-> 0]
    ELSE [ok |-> FALSE, e |-> v.e, ls |-> ls, timers |-> <<>>, success |-> 0,
          focusOn |-> firstError(f, v.e)]

\* The submit event of form f runs handleSubmit.  (A click that caused it is
\* an event of its own, which the document listener of NavigationController
\* sees first: OutsideClick.)
Submit(f) ==
    /\ page = "ready"
    /\ f \in FormsOf(build)
    /\ LET r == handleSubmit(f, fields[f], errors[f], localStorage, storageMode, now)
       IN /\ Len(timers) + Len(r.timers) <= MaxTimers
          /\ localStorage' = r.ls
          /\ errors' = [errors EXCEPT ![f] = r.e]
          /\ timers' = timers \o r.timers
          /\ successNotices' = [successNotices EXCEPT ![f] = @ + r.success]
          /\ focus' = IF r.focusOn = 0 THEN focus ELSE FormFields(f)[r.focusOn].id
          /\ lastEvent' = Ev("other", "", FALSE, {}, "", NoItems)
    /\ UNCHANGED <<uiVars, envVars, now, page, navVars, privVars, fields, restoredNotice,
                   advances, pageLog>>

\* The user changes field i of form f to v: the input event runs the field's
\* listener (clearError), then the form's (saveFormData).
InputEvent(f, i, v) ==
    /\ page = "ready"
    /\ f \in FormsOf(build)
    /\ i \in FieldIdx(f)
    /\ v \in FormFields(f)[i].typed
    /\ v # fields[f][i]
    /\ fields' = [fields EXCEPT ![f][i] = v]
    /\ errors' = [errors EXCEPT ![f] = clearError(f, i, @)]
    /\ localStorage' = saveFormData(f, [fields[f] EXCEPT ![i] = v], localStorage,
                                    storageMode, now)
    /\ lastEvent' = Ev("other", "", FALSE, {}, "", NoItems)
    /\ UNCHANGED <<uiVars, envVars, now, page, navVars, privVars, timers, successNotices,
                   restoredNotice, focus, advances, pageLog>>

\* Field i of form f loses focus: the blur listener runs validateField.  (A
\* blur over a field that carries the error class is an observed event.)
Blur(f, i) ==
    /\ page = "ready"
    /\ f \in FormsOf(build)
    /\ i \in FieldIdx(f)
    /\ focus' = IF focus = FormFields(f)[i].id THEN "" ELSE focus
    /\ LET r == validateField(f, i, fields[f], errors[f])
       IN /\ errors' = [errors EXCEPT ![f] = r.e]
          /\ lastEvent' = IF errors[f].fld[i].error
                          THEN Ev("blur", f, r.ok, {}, "", NoItems)
                          ELSE Ev("other", "", FALSE, {}, "", NoItems)
    /\ UNCHANGED <<uiVars, envVars, now, localStorage, page, navVars, privVars, timers,
                   fields, successNotices, restoredNotice, advances, pageLog>>

\* localStorage.clear(): every access throws in mode "denied".
clear(ls, mode) == IF mode = "denied" THEN ls ELSE NoItems

\* A click on "Clear My Data", answered in the confirm dialog: the button's
\* listener runs clearAllData, then the click bubbles to the document listener
\* of NavigationController, which closes the menu (the footer is outside
\* .main-nav); the reload that clearAllData asked for comes after both.
ClearClick(confirmed) ==
    /\ page = "ready"
    /\ LET cleared == confirmed /\ storageMode # "denied"
           ls1 == IF confirmed THEN clear(localStorage, storageMode) ELSE localStorage
           doc == closeMenu(build, ls1, storageMode, now, announced)
       IN /\ localStorage' = doc.ls
          /\ IF cleared
             THEN /\ page' = "loading"
                  /\ FreshDocument
                  /\ lastEvent' = Ev("clear", "", TRUE, DOMAIN localStorage,
                                     "All stored data has been cleared", NoItems)
             ELSE /\ nav' = doc.nav
                  /\ announced' = doc.said
                  /\ pageLog' = pageLog \cup {"clear"}
                  /\ lastEvent' = Ev("clear", "", FALSE, {},
                                     IF confirmed THEN "Error clearing data" ELSE "",
                                     NoItems)
                  /\ UNCHANGED <<uiVars, page, privVars, timers, formVars, focus>>
    /\ UNCHANGED <<envVars, now, advances>>

----------------------------------------------------------------------------
(* DataManagement.viewStoredData.  The stored texts are spelled out as the *)
(* strings JSON.stringify wrote, character by character.                   *)

\* The characters of the property and field names of the page.
Spell(w) ==
    CASE w = "accepted" -> <<"a", "c", "c", "e", "p", "t", "e", "d">>
      [] w = "isOpen" -> <<"i", "s", "O", "p", "e", "n">>
      [] w = "data" -> <<"d", "a", "t", "a">>
      [] w = "timestamp" -> <<"t", "i", "m", "e", "s", "t", "a", "m", "p">>
      [] w = "name" -> <<"n", "a", "m", "e">>
      [] w = "email" -> <<"e", "m", "a", "i", "l">>
      [] w = "tag" -> <<"t", "a", "g">>
      [] w = "nickname" -> <<"n", "i", "c", "k", "n", "a", "m", "e">>
      [] w = "message" -> <<"m", "e", "s", "s", "a", "g", "e">>
      [] w = "contact" -> <<"c", "o", "n", "t", "a", "c", "t">>
      [] w = "phone" -> <<"p", "h", "o", "n", "e">>
      [] w = "ext" -> <<"e", "x", "t">>
      [] w = "true" -> <<"t", "r", "u", "e">>
      [] w = "false" -> <<"f", "a", "l", "s", "e">>
      [] w = "null" -> <<"n", "u", "l", "l">>
      [] w = "yes" -> <<"y", "e", "s">>
      [] w = "text" -> <<"t", "e", "x", "t">>
      [] OTHER -> <<"x">>
\* The names of a draft in the order the fields of the forms have them.
NameOrder ==
    <<"name", "email", "tag", "nickname", "message", "contact", "phone", "ext">>

Quoted(chars) == <<"\"">> \o chars \o <<"\"">>

RECURSIVE Decimal(_)
Decimal(n) ==
    IF n < 10 THEN <<ToString(n)>> ELSE Decimal(n \div 10) \o <<ToString(n % 10)>>
\* Date.now() is in milliseconds, the model's clock in ticks of 100 ms.
Millis(n) == IF n = 0 THEN <<"0">> ELSE Decimal(n) \o <<"0", "0">>

\* Comma-separated members.
RECURSIVE Members(_)
Members(parts) ==
    IF parts = <<>> THEN <<>>
    ELSE IF Len(parts) = 1 THEN Head(parts)
    ELSE Head(parts) \o <<",">> \o Members(Tail(parts))
Braced(parts) == <<"{">> \o Members(parts) \o <<"}">>
Member(w, chars) == Quoted(Spell(w)) \o <<":">> \o chars

\* JSON.stringify of a value; a property that is undefined is left out.
valueJSON(v) ==
    CASE v.t = "number" -> Millis(v.n)
      [] v.t = "boolean" -> Spell(IF v.b THEN "true" ELSE "false")
      [] v.t = "string" -> Quoted(Spell(v.s))
      [] OTHER -> Spell("null")
mapJSON(m) ==
    LET names == SelectSeq(NameOrder, LAMBDA n : n \in DOMAIN m)
    IN Braced([k \in 1..Len(names) |-> Member(names[k], Quoted(m[names[k]]))])
dataJSON(d) ==
    CASE d.k = "map" -> mapJSON(d.m)
      [] d.k = "string" -> Quoted(Spell("text"))
      [] OTHER -> Spell("null")

\* The string a stored text is: what localStorage.getItem returns.
stringify(text) ==
    CASE text.p = "empty" -> <<>>
      [] text.p = "bad" -> <<"{">>
      [] text.p = "null" -> Spell("null")
      [] text.p = "scalar" -> <<"1">>
      [] OTHER ->
           Braced(
              (IF text.accepted.t # "undefined"
               THEN << Member("accepted", valueJSON(text.accepted)) >> ELSE <<>>)
              \o (IF text.isOpen.t # "undefined"
                  THEN << Member("isOpen", valueJSON(text.isOpen)) >> ELSE <<>>)
              \o (IF text.data.k # "undefined"
                  THEN << Member("data", dataJSON(text.data)) >> ELSE <<>>)
              \o (IF text.timestamp.t # "undefined"
                  THEN << Member("timestamp", valueJSON(text.timestamp)) >> ELSE <<>>))

PreviewLength == 100

\* value.substring(0, 100) + (value.length > 100 ? '...' : '')
displayValue(value) ==
    IF Len(value) > PreviewLength
    THEN SubSeq(value, 1, PreviewLength) \o <<".", ".", ".">>
    ELSE value

\* content.innerHTML = dataHTML: the HTML parser reads the interpolated value
\* as markup.  A '<' followed by a letter or '/' opens a tag, which runs to
\* the next '>' and is no text of the document.
TagOpeners == {"a", "b", "i", "p", "s", "/"}
Least(S) == CHOOSE k \in S : \A j \in S : k <= j
RECURSIVE innerHTML(_)
innerHTML(chars) ==
    LET opens == {j \in 1..(Len(chars) - 1) :
                    chars[j] = "<" /\ chars[j + 1] \in TagOpeners}
    IN IF opens = {} THEN chars
       ELSE LET from == Least(opens)
                ends == {k \in (from + 1)..Len(chars) : chars[k] = ">"}
                upto == IF ends = {} THEN Len(chars) ELSE Least(ends)
            IN SubSeq(chars, 1, from - 1)
               \o innerHTML(SubSeq(chars, upto + 1, Len(chars)))

\* The loop over localStorage.key(i) and the list items built from
\* Object.keys(data): one item per key, in the store's order of keys.
RECURSIVE listItems(_, _)
listItems(ls, keys) ==
    IF keys = {} THEN <<>>
    ELSE LET key == CHOOSE k \in keys : TRUE
         IN << [key |-> key, shown |-> innerHTML(displayValue(stringify(ls[key])))] >>
            \o listItems(ls, keys \ {key})

\* A viewStoredData whose catch block tells the user nothing.
viewStoredData_Silent(ls, mode, n) ==
    IF mode = "denied"
    THEN [ok |-> FALSE, alert |-> "", modal |-> <<>>]
    ELSE [ok |-> TRUE, alert |-> "",
          modal |-> << [id |-> n + 1, noData |-> DOMAIN ls = {},
                        items |-> <<>>, closes |-> {}] >>]

\* viewStoredData: the modal it appends, or the alert of its catch block
\* (localStorage.length throws when storage is denied).
viewStoredData(ls, mode, n) ==
    IF mode = "denied"
    THEN [ok |-> FALSE, alert |-> "Error viewing data", modal |-> <<>>]
    ELSE [ok |-> TRUE, alert |-> "",
          modal |-> << [id |-> n + 1,
                        noData |-> DOMAIN ls = {},
                        items |-> listItems(ls, DOMAIN ls),
                        closes |-> {}] >>]

\* document.getElementById('close-data-modal') is the button of the oldest
\* modal in the document: it gets the listener that removes the new modal.
withCloseListener(ms, id) ==
    [k \in 1..Len(ms) |-> IF k = 1 THEN [ms[k] EXCEPT !.closes = @ \cup {id}] ELSE ms[k]]

\* "View Stored Data" is activated: the button's listener runs
\* viewStoredData, then the click bubbles to the document listener of
\* NavigationController, which closes the menu (the footer is outside
\* .main-nav).  script.js also adds an escape handler and focuses the close
\* button that getElementById finds.
ViewActivate ==
    /\ page = "ready"
    /\ nextId < MaxOverlays
    /\ LET r == viewStoredData(localStorage, storageMode, nextId)
           doc == closeMenu(build, localStorage, storageMode, now, announced)
       IN /\ modals' = IF r.ok THEN withCloseListener(modals \o r.modal, nextId + 1)
                       ELSE modals
          /\ nextId' = IF r.ok THEN nextId + 1 ELSE nextId
          /\ keyHandlers' = IF r.ok /\ build = "script"
                            THEN Append(keyHandlers,
                                        [kind |-> "modal", id |-> nextId + 1, index |-> 0])
                            ELSE keyHandlers
          /\ focus' = IF r.ok /\ build = "script" THEN "close-data-modal" ELSE focus
          /\ localStorage' = doc.ls
          /\ nav' = doc.nav
          /\ announced' = doc.said
          /\ lastEvent' = Ev("view", "", r.ok, {}, r.alert, NoItems)
    /\ UNCHANGED <<envVars, now, page, privVars, timers, formVars, advances, pageLog,
                   overlays, shown, query, liveRegion>>

\* A mouse click on the button: possible only while nothing covers the page.
ViewClick ==
    /\ overlays = <<>> /\ modals = <<>>
    /\ ViewActivate

\* Enter or Space on the button, which the keyboard reaches (and, in
\* part_000, the focus never left) while a modal is open.
ViewKey ==
    /\ modals # <<>>
    /\ ViewActivate

\* The close button of modal k is activated: its listeners remove the modals
\* they were made for; the click bubbles to the document listener.
ModalCloseClick(k) ==
    /\ page = "ready"
    /\ k \in 1..Len(modals)
    /\ LET doc == closeMenu(build, localStorage, storageMode, now, announced)
       IN /\ modals' = Detach(modals, modals[k].closes)
          /\ localStorage' = doc.ls
          /\ nav' = doc.nav
          /\ announced' = doc.said
    /\ lastEvent' = Ev("other", "", FALSE, {}, "", NoItems)
    /\ UNCHANGED <<envVars, now, page, privVars, timers, formVars, focus, advances,
                   pageLog, overlays, keyHandlers, nextId, shown, query, liveRegion>>

\* A click on the backdrop of the topmost modal (e.target === modal).
ModalBackdropClick ==
    /\ page = "ready"
    /\ modals # <<>>
    /\ LET doc == closeMenu(build, localStorage, storageMode, now, announced)
       IN /\ modals' = SubSeq(modals, 1, Len(modals) - 1)
          /\ localStorage' = doc.ls
          /\ nav' = doc.nav
          /\ announced' = doc.said
    /\ lastEvent' = Ev("other", "", FALSE, {}, "", NoItems)
    /\ UNCHANGED <<envVars, now, page, privVars, timers, formVars, focus, advances,
                   pageLog, overlays, keyHandlers, nextId, shown, query, liveRegion>>

----------------------------------------------------------------------------
(* SpecPrivacy: the privacy banner over every shape of stored consent.     *)

\* Ages of a stored record at the first page load, around an expiry period.
Ages(limit) == {0, limit - 1, limit, limit + 1}
Stamps(limit) == {Num(Epoch0 - a) : a \in Ages(limit)}
\* Texts that are no JSON object.
Oddities == {EmptyText, BadText, NullText, ScalarText}
\* Values that are no boolean, and values that are no number.
OddFlags == {Str("yes"), Undefined}
OddStamps == {Undefined, Null, Str("x")}

\* Records of the shape {accepted: bool, timestamp: epoch}, and objects of
\* another shape.
ConsentRecords ==
    {Text("object", Bool(a), Undefined, NoMap, ts) :
        a \in BOOLEAN, ts \in Stamps(ConsentMaxAge)}
ConsentMisshapen ==
    {Text("object", a, Undefined, NoMap, Num(Epoch0)) : a \in OddFlags}
    \cup {Text("object", Bool(TRUE), Undefined, NoMap, ts) : ts \in OddStamps}
ConsentInputs == Oddities \cup ConsentRecords \cup ConsentMisshapen
One(k, texts) == {[x \in {k} |-> v] : v \in texts}

PrivacyJumps == {ShowDelayScript, ShowDelayPart, ConsentMaxAge - 1}

InitPrivacy ==
    InitPage({NoItems} \cup One("privacyConsent", ConsentInputs), {1024}, Builds, Modes)

NextPrivacy ==
    \/ DOMContentLoaded
    \/ Reload
    \/ AcceptClick
    \/ \E k \in 1..MaxTimers : TimerFire(k)
    \/ \E d \in PrivacyJumps : Advance(d)

SpecPrivacy == InitPrivacy /\ [][NextPrivacy]_vars

\* Shapes of the stored consent record.
ConsentDated ==
    /\ Has(localStorage, "privacyConsent")
    /\ localStorage["privacyConsent"].p = "object"
    /\ localStorage["privacyConsent"].timestamp.t = "number"
ConsentAge == now - localStorage["privacyConsent"].timestamp.n
ShowPending == \E k \in 1..Len(timers) : timers[k].cb = "showNotice"

\* C2: for every stored privacyConsent record whose timestamp is more than one
\* year before the current time, getPrivacyConsent returns false, whatever the
\* stored accepted is: both for the value PrivacyController.init got at page
\* load and for a call in any reachable state.
C2_ExpiredConsentIsNotAccepted ==
    (ConsentDated /\ ConsentAge > ConsentMaxAge) =>
        /\ getPrivacyConsent(localStorage, storageMode, now) = Bool(FALSE)
        /\ lastEvent.op = "load" => hasAccepted = Bool(FALSE)

C2_Witness ==
    /\ lastEvent.op = "load"
    /\ storageMode = "ok"
    /\ ConsentDated /\ ConsentAge > ConsentMaxAge
    /\ localStorage["privacyConsent"].accepted = Bool(TRUE)
    /\ hasAccepted = Bool(FALSE)


\* C8: accepting consent hides the banner for good: once acceptPrivacy has run
\* and every pending timer has fired, the banner carries no 'visible' class and
\* aria-hidden 'true'; the record {accepted: true, timestamp: now} is stored;
\* and a page load that finds that record younger than a year keeps the banner
\* hidden.
C8_AcceptHidesBanner ==
    /\ (page = "ready" /\ "accept" \in pageLog /\ timers = <<>>) =>
          (~notice.visible /\ notice.ariaHidden = "true")
    /\ (lastEvent.op = "accept" /\ storageMode = "ok") =>
          (Has(localStorage, "privacyConsent")
           /\ localStorage["privacyConsent"] = ConsentText(Bool(TRUE), now))
    /\ (lastEvent.op = "load" /\ ConsentDated /\ ConsentAge < ConsentMaxAge
        /\ localStorage["privacyConsent"].accepted = Bool(TRUE)) =>
          (~notice.visible /\ ~ShowPending)

\* The outcomes of PrivacyController.init and the cases of the stored record.
ConsentAbsent == ~Has(localStorage, "privacyConsent")
ConsentUnparsable ==
    Has(localStorage, "privacyConsent") /\ localStorage["privacyConsent"].p = "bad"
ConsentExpired == ConsentDated /\ ConsentAge >= ConsentMaxAge
ConsentValid ==
    /\ ConsentDated /\ ConsentAge < ConsentMaxAge
    /\ localStorage["privacyConsent"].accepted = Bool(TRUE)
Revealed == ShowPending /\ ~notice.hidden
KeptHidden ==
    ~ShowPending /\ ~notice.visible /\ (build = "script" => notice.hidden)

\* C9: at page load PrivacyController reveals the banner when the consent
\* record is absent, unparsable or a year old or older, keeps it hidden when
\* the record is present with accepted true and younger than a year, and does
\* exactly one of the two in every case.
C9_LoadRevealsOrKeepsHidden ==
    lastEvent.op = "load" =>
        /\ (ConsentAbsent \/ ConsentUnparsable \/ ConsentExpired) => Revealed
        /\ ConsentValid => KeptHidden
        /\ Revealed # KeptHidden

C9_Witness ==
    /\ lastEvent.op = "load"
    /\ ConsentValid /\ ConsentAge = ConsentMaxAge - 1
    /\ KeptHidden
    /\ "privacyConsent" \in DOMAIN localStorage

----------------------------------------------------------------------------
(* SpecNav: the mobile menu over every shape of stored menu state.         *)

MenuRecords ==
    {Text("object", Undefined, Bool(o), NoMap, ts) :
        o \in BOOLEAN, ts \in Stamps(MenuMaxAge)}
MenuMisshapen ==
    {Text("object", Undefined, o, NoMap, Num(Epoch0)) : o \in OddFlags}
    \cup {Text("object", Undefined, Bool(TRUE), NoMap, ts) : ts \in OddStamps}
MenuInputs == Oddities \cup MenuRecords \cup MenuMisshapen

Widths == {MobileBreakpoint, MobileBreakpoint + 1}
NavJumps == {1, MenuMaxAge - 1}
Swipes == {SwipeThreshold, SwipeThreshold + 1}

InitNav ==
    InitPage({NoItems} \cup One("menuState", MenuInputs), Widths, Builds, Modes)

NextNav ==
    \/ DOMContentLoaded
    \/ Reload
    \/ ToggleClick
    \/ OutsideClick
    \/ EscapeKey
    \/ \E w \in Widths : Resize(w)
    \/ \E dx \in Swipes : Swipe(dx)
    \/ \E d \in NavJumps : Advance(d)

SpecNav == InitNav /\ [][NextNav]_vars

\* The menuState text a page load found, and its cases.
MenuBefore == lastEvent.before["menuState"]
MenuIsRecord ==
    /\ Has(lastEvent.before, "menuState")
    /\ MenuBefore.p = "object"
    /\ MenuBefore.isOpen.t = "boolean"
    /\ MenuBefore.timestamp.t = "number"
\* The record says open, is younger than one hour, and the viewport is mobile.
MenuRestorable ==
    /\ MenuIsRecord
    /\ MenuBefore.isOpen.b
    /\ now - MenuBefore.timestamp.n < MenuMaxAge
    /\ innerWidth <= MobileBreakpoint
\* Every text but an object whose isOpen is no boolean.
MenuInScope ==
    \/ ~Has(lastEvent.before, "menuState")
    \/ MenuBefore.p # "object"
    \/ MenuBefore.isOpen.t \in {"boolean", "undefined"}

\* C3: after initialization of NavigationController (part_000) the menu is
\* open if and only if the stored menuState record has isOpen true, is younger
\* than one hour and the viewport is at most 768 wide; in every other case (no
\* record, isOpen false, one hour old or older, wider viewport, text that is
\* no record) the menu is closed.
C3_MenuRestoredIffFreshOpenMobile ==
    (lastEvent.op = "load" /\ build = "part000" /\ MenuInScope) =>
        /\ nav.show <=> MenuRestorable
        /\ nav = IF MenuRestorable THEN NavOpen ELSE NavClosed

C3_Witness ==
    /\ lastEvent.op = "load" /\ build = "part000"
    /\ MenuRestorable
    /\ now - MenuBefore.timestamp.n = MenuMaxAge - 1
    /\ innerWidth = MobileBreakpoint
    /\ nav = NavOpen

\* C11: whenever the viewport is wider than 768 the menu does not carry the
\* 'show' class, whatever toggles, outside clicks, Escape keys, resizes and
\* page loads came before; and a page load at that width restores no stored
\* open state.
C11_DesktopMenuClosed ==
    innerWidth > MobileBreakpoint => ~nav.show

\* A step in which openMenu or closeMenu runs to its end.
MenuOperation ==
    \/ ToggleClick
    \/ CloseEvent
    \/ EscapeKey
    \/ \E w \in Widths : w > MobileBreakpoint /\ Resize(w)
    \/ DOMContentLoaded
         /\ RestoresMenu(localStorage, storageMode, now, innerWidth)

\* C21: in part_000, after every step in which openMenu or closeMenu ran
\* (toggle, outside click, Escape, resize to desktop width, restore on load)
\* with a store that accepts writes, menuState holds isOpen equal to the
\* menu's 'show' flag and the time of that step as timestamp; and whether or
\* not the write succeeds, a toggle flips the menu and the closing events
\* close it.
C21_MenuStatePersistedAtOnce ==
    [][/\ (MenuOperation /\ build = "part000" /\ storageMode = "ok") =>
             /\ Has(localStorage', "menuState")
             /\ localStorage'["menuState"] = MenuText(Bool(nav'.show), now')
       /\ ToggleClick => nav'.show = ~nav.show
       /\ (CloseEvent \/ EscapeKey) => ~nav'.show]_vars

\* The menu was opened after the clock had moved on, and the record carries
\* that later time.
C21_Witness ==
    /\ build = "part000" /\ storageMode = "ok" /\ page = "ready"
    /\ now = Epoch0 + MenuMaxAge
    /\ nav.show
    /\ Has(localStorage, "menuState")
    /\ localStorage["menuState"] = MenuText(Bool(TRUE), now)

\* C22: in every state the menu carries 'show' exactly when the toggle
\* carries 'active', aria-expanded is 'true' and the body's overflow is
\* 'hidden'; a closed menu has none of the four; and toggleMenu applied twice
\* gives back the flags it started from.
C22_MenuFlagsAgree ==
    /\ nav.show <=> nav.active
    /\ nav.show <=> nav.expanded = "true"
    /\ nav.show <=> nav.overflow = "hidden"
    /\ ~nav.show => nav = NavClosed
    /\ LET once == toggleMenu(build, nav, localStorage, storageMode, now, announced)
           twice == toggleMenu(build, once.nav, once.ls, storageMode, now, once.said)
       IN once.nav.show = ~nav.show /\ twice.nav = nav

\* The menu of script.js has been opened by the toggle.
C22_Witness ==
    /\ build = "script" /\ page = "ready"
    /\ nav = NavOpen
    /\ announced = "Navigation menu opened"
    /\ innerWidth = MobileBreakpoint

----------------------------------------------------------------------------
(* SpecForm: the join form over every shape of stored draft.               *)

\* Drafts: one with every name saveFormData stores, one with a single name,
\* one with a name that no field carries.
DraftMaps ==
    { [name |-> <<"a", "b">>, email |-> <<"a", "@", "b">>, tag |-> <<"x">>],
      [name |-> <<"a", "b">>],
      [tag |-> <<"x">>, nickname |-> <<"q">>] }
DraftRecords ==
    {Text("object", Undefined, Undefined, DataMap(m), ts) :
        m \in DraftMaps, ts \in Stamps(DraftMaxAge)}
DraftMisshapen ==
    {Text("object", Undefined, Undefined, [k |-> kind, m |-> <<>>], Num(Epoch0)) :
        kind \in {"undefined", "null", "string"}}
    \cup {Text("object", Undefined, Undefined, DataMap([name |-> <<"a", "b">>]), ts) :
            ts \in OddStamps}
DraftInputs == Oddities \cup DraftRecords \cup DraftMisshapen

FormsInPlay == {"join-form"}
\* The fields that some rule of validateField can fail.
Checked(f) ==
    {i \in FieldIdx(f) :
        \/ FormFields(f)[i].required \/ FormFields(f)[i].minlength # 0
        \/ FormFields(f)[i].type = "email" \/ FormFields(f)[i].name = "phone"}
FormJumps == {NoticeLife}

\* The visitor has accepted the privacy notice before.
Consented == [x \in {"privacyConsent"} |-> ConsentText(Bool(TRUE), Epoch0)]

InitForm ==
    /\ InitPage({NoItems, Consented}
                \cup {Consented @@ d : d \in One(FormKey("join-form"), DraftInputs)},
                {1024}, {"part000"}, Modes)
    /\ storageMode = "ok" => localStorage # NoItems

NextForm ==
    \/ DOMContentLoaded
    \/ Reload
    \/ \E f \in FormsInPlay : \E i \in FieldIdx(f) :
          \E v \in FormFields(f)[i].typed : InputEvent(f, i, v)
    \/ \E f \in FormsInPlay : \E i \in Checked(f) : Blur(f, i)
    \/ \E f \in FormsInPlay : Submit(f)
    \/ \E k \in 1..MaxTimers : TimerFire(k)
    \/ \E d \in FormJumps : Advance(d)

SpecForm == InitForm /\ [][NextForm]_vars

\* The draft the store held under the key of form f when the page load began.
DraftBefore(f) == lastEvent.before[FormKey(f)]
DraftStored(f) == Has(lastEvent.before, FormKey(f))
\* The stored text is absent, is no JSON object, or is a record of the shape
\* saveFormData writes: a map of names to strings and a numeric timestamp.
DraftInScope(f) ==
    DraftStored(f) /\ DraftBefore(f).p = "object"
        => DraftBefore(f).data.k = "map" /\ DraftBefore(f).timestamp.t = "number"
\* The stored record parses and is younger than 24 hours.
DraftReplayable(f) ==
    /\ DraftStored(f)
    /\ DraftBefore(f).p = "object"
    /\ DraftBefore(f).timestamp.t = "number"
    /\ now - DraftBefore(f).timestamp.n < DraftMaxAge
FieldName(f, i) == FormFields(f)[i].name

\* C4: right after a page load, the restored-data notice of a form is shown
\* if and only if its stored draft parses and is younger than 24 hours; when
\* the draft is replayed every name of the draft that a field carries has its
\* value in a field of that name and every field whose name is no key of the
\* draft holds its default; when it is not replayed every field holds its
\* default.
C4_DraftReplayedIffFresh ==
    lastEvent.op = "load" =>
        \A f \in FormsOf(build) : DraftInScope(f) =>
            /\ restoredNotice[f] = 1 <=> DraftReplayable(f)
            /\ DraftReplayable(f) =>
                  LET m == DraftBefore(f).data.m IN
                  /\ \A i \in FieldIdx(f) :
                        FieldName(f, i) \notin DOMAIN m
                            => fields[f][i] = FormFields(f)[i].default
                  /\ \A n \in DOMAIN m :
                        (\E i \in FieldIdx(f) : FieldName(f, i) = n)
                            => \E i \in FieldIdx(f) :
                                  FieldName(f, i) = n /\ fields[f][i] = m[n]
            /\ ~DraftReplayable(f) => fields[f] = Defaults(f)

C4_Witness ==
    /\ lastEvent.op = "load"
    /\ DraftReplayable("join-form")
    /\ now - DraftBefore("join-form").timestamp.n = DraftMaxAge - 1
    /\ DOMAIN DraftBefore("join-form").data.m = {"name"}
    /\ fields["join-form"][1] = <<"a", "b">>
    /\ fields["join-form"][4] = <<"y">>
    /\ restoredNotice["join-form"] = 1

\* The named fields of a form that are no submit control.
Drafted(f) ==
    {i \in FieldIdx(f) : FormFields(f)[i].type # "submit" /\ FieldName(f, i) # ""}

\* C5: whenever an input event has saved the draft of a form, loading that
\* draft at once into the form as the document delivers it gives every named
\* field that is no submit control the value it has now.
C5_DraftRoundTrip ==
    [][\A f \in FormsInPlay :
          (/\ storageMode = "ok"
           /\ \E i \in FieldIdx(f) : \E v \in FormFields(f)[i].typed :
                 InputEvent(f, i, v))
          => \A i \in Drafted(f) :
                loadFormData(f, Defaults(f), localStorage', storageMode, now').vals[i]
                    = fields'[f][i]]_vars

\* Some field of form f fails validation with the values the form holds.
SomeFails(f) == \E i \in FieldIdx(f) : Failure(FormFields(f)[i], fields[f][i]) # ""
FirstFailing(f) ==
    CHOOSE i \in FieldIdx(f) :
        /\ Failure(FormFields(f)[i], fields[f][i]) # ""
        /\ \A k \in 1..(i - 1) : Failure(FormFields(f)[k], fields[f][k]) = ""
ResetPending(f, ts) == \E k \in DOMAIN ts : ts[k].cb = "resetForm" /\ ts[k].form = f

\* C6: a submit of a form in which some field fails validation adds no
\* success notice, schedules nothing, moves the focus to the first failing
\* field in document order, and leaves the store and the field values as they
\* are.
C6_FailedSubmitAborts ==
    [][\A f \in FormsInPlay :
          Submit(f) /\ SomeFails(f)
          => /\ successNotices' = successNotices
             /\ timers' = timers
             /\ focus' = FormFields(f)[FirstFailing(f)].id
             /\ localStorage' = localStorage
             /\ fields' = fields]_vars

C6_Witness ==
    /\ page = "ready"
    /\ SomeFails("join-form")
    /\ Failure(FormFields("join-form")[2], fields["join-form"][2]) # ""
    /\ focus = "name"
    /\ errors["join-form"].fld[1].error /\ errors["join-form"].fld[2].error
    /\ Has(localStorage, FormKey("join-form"))
    /\ successNotices["join-form"] = 0
    /\ ~ResetPending("join-form", timers)

\* C7: a submit of a form whose fields all pass validation adds a success
\* notice, leaves the store without the draft of the form, keeps the field
\* values and schedules the reset for 2000 ms later; and a step of the open
\* page that puts a form back to its defaults, other than an input of the
\* user, is the firing of a reset timer that is due, taken after the submit
\* that removed the draft.
C7_SubmitClearsDraftThenResets ==
    [][\A f \in FormsInPlay :
          /\ Submit(f) /\ ~SomeFails(f)
             => /\ successNotices'[f] = successNotices[f] + 1
                /\ ~Has(localStorage', FormKey(f))
                /\ fields' = fields
                /\ timers'[Len(timers')] = Timer("resetForm", now + ResetDelay, f)
          /\ (/\ page = "ready" /\ page' = "ready"
              /\ fields'[f] # fields[f]
              /\ ~\E i \in FieldIdx(f) : \E v \in FormFields(f)[i].typed :
                     InputEvent(f, i, v))
             => /\ fields'[f] = Defaults(f)
                /\ \E k \in DOMAIN timers :
                      /\ timers[k].cb = "resetForm" /\ timers[k].form = f
                      /\ timers[k].due <= now
                      /\ timers' = Without(timers, k)
                /\ localStorage' = localStorage]_vars

C7_Witness ==
    /\ page = "ready"
    /\ successNotices["join-form"] = 1
    /\ ~Has(localStorage, FormKey("join-form"))
    /\ fields["join-form"][1] = <<"a", "b">>
    /\ \E k \in DOMAIN timers :
          timers[k] = Timer("resetForm", now + ResetDelay, "join-form")

\* The store holds a draft of form f with a value that field values vals
\* have, other than the field's default.
HoldsValueOf(f, ls, vals) ==
    /\ Has(ls, FormKey(f))
    /\ ls[FormKey(f)].p = "object"
    /\ ls[FormKey(f)].data.k = "map"
    /\ \E i \in FieldIdx(f) :
          /\ vals[i] # Defaults(f)[i]
          /\ FormFields(f)[i].name \in DOMAIN ls[FormKey(f)].data.m
          /\ ls[FormKey(f)].data.m[FormFields(f)[i].name] = vals[i]

\* C23: when the reset timer of a successful submit fires, whatever input
\* events came between the submit and the time the timer was due, the store
\* holds no draft of the form, saved in that time, with a value the fields
\* had before the reset.
C23_NoStaleDraftAfterReset ==
    [][\A f \in FormsInPlay : \A k \in DOMAIN timers :
          (TimerFire(k) /\ timers[k].cb = "resetForm" /\ timers[k].form = f)
          => ~(/\ HoldsValueOf(f, localStorage', fields[f])
               /\ localStorage'[FormKey(f)].timestamp.t = "number"
               /\ localStorage'[FormKey(f)].timestamp.n < timers[k].due)]_vars

----------------------------------------------------------------------------
(* Spec: the whole page, for a first-time visitor and for one who comes    *)
(* back with consent, an open menu and a draft in the store.               *)

Returning ==
    [x \in {"privacyConsent", "menuState", FormKey("join-form")} |->
        CASE x = "privacyConsent" -> ConsentText(Bool(TRUE), Epoch0)
          [] x = "menuState" -> MenuText(Bool(TRUE), Epoch0)
          [] OTHER -> DraftText([name |-> <<"a", "b">>], Epoch0)]

PageJumps == {ShowDelayPart}

Init == InitPage({NoItems, Returning}, {MobileBreakpoint}, Builds, Modes)

Next ==
    \/ DOMContentLoaded
    \/ Reload
    \/ AcceptClick
    \/ ToggleClick
    \/ OutsideClick
    \/ \E v \in FormFields("join-form")[1].typed : InputEvent("join-form", 1, v)
    \/ \E c \in BOOLEAN : ClearClick(c)
    \/ \E k \in 1..MaxTimers : TimerFire(k)
    \/ \E d \in PageJumps : Advance(d)

Spec == Init /\ [][Next]_vars

\* C1: right after the page load that follows a confirmed "Clear My Data",
\* none of the keys the store held before the click is in the store, and the
\* privacy banner is about to be shown.
C1_ClearedKeysStayAbsent ==
    (lastEvent.op = "load" /\ lastEvent.ok) =>
        /\ \A k \in lastEvent.keys : ~Has(localStorage, k)
        /\ Revealed

----------------------------------------------------------------------------
(* SpecStored: a page load over one stored text of any shape under one of  *)
(* the three keys.                                                         *)

StoredJumps == {MenuMaxAge}

InitStored ==
    InitPage({NoItems} \cup One("privacyConsent", ConsentInputs)
                      \cup One("menuState", MenuInputs)
                      \cup One(FormKey("join-form"), DraftInputs),
             {MobileBreakpoint}, Builds, Modes)

NextStored ==
    \/ DOMContentLoaded
    \/ Reload
    \/ \E d \in StoredJumps : Advance(d)

SpecStored == InitStored /\ [][NextStored]_vars

\* The text under key k when the page load began is no JSON object, or an
\* object whose flag is no boolean or whose timestamp is no number.
FlagMalformed(k, flag) ==
    /\ Has(lastEvent.before, k)
    /\ \/ lastEvent.before[k].p # "object"
       \/ flag.t # "boolean"
       \/ lastEvent.before[k].timestamp.t # "number"
DraftMalformed(f) ==
    /\ DraftStored(f)
    /\ \/ DraftBefore(f).p # "object"
       \/ DraftBefore(f).data.k # "map"
       \/ DraftBefore(f).timestamp.t # "number"

\* C10: right after a page load over a stored text that is unparsable or of
\* the wrong shape, the page is as it is over an absent key: the consent got
\* is not accepted and the banner is revealed, the menu is closed, and the
\* form holds its defaults without a restored-data notice.
C10_MalformedIsAbsent ==
    lastEvent.op = "load" =>
        /\ FlagMalformed("privacyConsent", lastEvent.before["privacyConsent"].accepted)
              => ~Truthy(hasAccepted) /\ Revealed
        /\ (build = "part000"
            /\ FlagMalformed("menuState", lastEvent.before["menuState"].isOpen))
              => nav = NavClosed
        /\ \A f \in FormsOf(build) :
              DraftMalformed(f) => fields[f] = Defaults(f) /\ restoredNotice[f] = 0

----------------------------------------------------------------------------
(* SpecGallery: the image gallery of part_000.                             *)

InitGallery == InitPage({Consented}, {1024}, {"part000"}, {"ok"})

NextGallery ==
    \/ DOMContentLoaded
    \/ Reload
    \/ \E i \in Images : ThumbClick(i)
    \/ \E i \in Images : ThumbKey(i)
    \/ \E k \in 1..MaxOverlays : CloseButtonClick(k)
    \/ BackdropClick
    \/ LightboxImageClick
    \/ EscapeKey

SpecGallery == InitGallery /\ [][NextGallery]_vars

\* C12: the document holds at most one lightbox overlay at any time.
C12_OneOverlay == Len(overlays) <= 1

\* The thumbnails whose activation opened the overlays that are open.
Openers == {Thumb(overlays[k].index) : k \in DOMAIN overlays}

\* C13: each close path removes the overlay and returns the focus to the
\* thumbnail that opened it: the close button of an overlay, a click on the
\* backdrop of the topmost overlay, and Escape, which leaves no overlay in
\* the document and the focus on a thumbnail that opened one of those it
\* closed.
C13_ClosePathsReturnFocus ==
    [][/\ \A k \in DOMAIN overlays :
             CloseButtonClick(k)
             => /\ \A j \in DOMAIN overlays' : overlays'[j].id # overlays[k].id
                /\ focus' = Thumb(overlays[k].index)
       /\ BackdropClick
             => /\ overlays' = SubSeq(overlays, 1, Len(overlays) - 1)
                /\ focus' = Thumb(overlays[Len(overlays)].index)
       /\ (EscapeKey /\ overlays # <<>>)
             => /\ overlays' = <<>>
                /\ focus' \in Openers]_vars

\* C24: every Escape listener that an overlay or a modal has added to the
\* document belongs to one that is still in the document: an overlay closed
\* by its button or by a backdrop click leaves no listener behind that a
\* later Escape would run, and the listeners do not pile up over openings
\* and closings.
C24_NoListenerOfClosedOverlay ==
    \A k \in DOMAIN keyHandlers :
        \/ \E j \in DOMAIN overlays : overlays[j].id = keyHandlers[k].id
        \/ \E j \in DOMAIN modals : modals[j].id = keyHandlers[k].id

----------------------------------------------------------------------------
(* SpecFilter: the content filter of part_000 over every short query.      *)

QueryChars == {"s", "S", "k", "i", "a", " "}
\* The values one keystroke makes of the value q: a character more, or the
\* last character less.
Keystrokes(q) ==
    {Append(q, c) : c \in IF Len(q) < MaxQuery THEN QueryChars ELSE {}}
    \cup (IF q = <<>> THEN {} ELSE {SubSeq(q, 1, Len(q) - 1)})

InitFilter == InitPage({Consented}, {1024}, {"part000"}, {"ok"})

NextFilter ==
    \/ DOMContentLoaded
    \/ Reload
    \/ \E q \in Keystrokes(query) : FilterInput(q)
    \/ FilterEnter

SpecFilter == InitFilter /\ [][NextFilter]_vars

\* C14: right after a filter pass an item is visible if and only if the query
\* is empty or the text of the item contains the query, compared without
\* regard to case.
C14_VisibleIffContainsQuery ==
    lastEvent.op = "filter" =>
        \A i \in Items :
            shown[i] <=> (query = <<>>
                          \/ includes(toLowerCase(ItemText[i]), toLowerCase(query)))

\* The number of items a filter pass has left visible.
Visible == Cardinality({i \in Items : shown[i]})

\* C15: right after a filter pass the live region reads 'Showing N of M
\* items', N the number of visible items and M the number of items; N is at
\* most M, N is M for the empty query, and the query 'ski' over the three
\* items of the page gives 'Showing 2 of 3 items'.
C15_LiveRegionCounts ==
    lastEvent.op = "filter" =>
        /\ liveRegion = "Showing " \o ToString(Visible) \o " of "
                          \o ToString(Cardinality(Items)) \o " items"
        /\ Visible <= Cardinality(Items)
        /\ query = <<>> => Visible = Cardinality(Items)
        /\ query = <<"s", "k", "i">> => liveRegion = "Showing 2 of 3 items"

C15_Witness ==
    /\ lastEvent.op = "filter"
    /\ query = <<"s", "k", "i">>
    /\ shown = <<TRUE, FALSE, TRUE>>
    /\ liveRegion = "Showing 2 of 3 items"

----------------------------------------------------------------------------
(* SpecValidate: the support form, whose fields meet every rule of         *)
(* validateField.                                                          *)

InitValidate == InitPage({Consented}, {1024}, {"part000"}, {"ok"})

NextValidate ==
    \/ DOMContentLoaded
    \/ \E i \in FieldIdx("support-form") :
          \E v \in FormFields("support-form")[i].typed :
             InputEvent("support-form", i, v)
    \/ \E i \in FieldIdx("support-form") : Blur("support-form", i)
    \/ Reload

SpecValidate == InitValidate /\ [][NextValidate]_vars

\* The rules of validateField on a trimmed value v of a field d.
EmailShaped(v) ==
    \E a \in 2..Len(v) : \E p \in (a + 2)..(Len(v) - 1) :
        /\ v[a] = "@" /\ v[p] = "."
        /\ \A k \in 1..Len(v) : v[k] # " " /\ (v[k] = "@" => k = a)
PhoneShaped(v) == \A k \in 1..Len(v) : v[k] \in Digits \cup {" ", "-", "(", ")"}
RuleRequired(d, v) == d.required /\ v = <<>>
RuleEmail(d, v) == d.type = "email" /\ v # <<>> /\ ~EmailShaped(v)
RulePhone(d, v) == d.name = "phone" /\ v # <<>> /\ ~PhoneShaped(v)
RuleLength(d, v) == d.minlength # 0 /\ Len(v) < d.minlength
FirstMessage(d, v) ==
    CASE RuleRequired(d, v) -> "This field is required"
      [] ~RuleRequired(d, v) /\ RuleEmail(d, v) -> "Please enter a valid email address"
      [] ~RuleRequired(d, v) /\ ~RuleEmail(d, v) /\ RulePhone(d, v)
            -> "Please enter a valid phone number"
      [] OTHER -> "Please enter at least " \o ToString(d.minlength) \o " characters"
Passes(d, raw) ==
    LET v == Trim(raw) IN
    ~(RuleRequired(d, v) \/ RuleEmail(d, v) \/ RulePhone(d, v) \/ RuleLength(d, v))

\* C16: a blur validates the field: the field carries the error class
\* exactly when its trimmed value fails one of the rules required, e-mail,
\* phone, minimum length, and the one message shown is that of the first
\* rule that fails, in this order; 'a@b' fails with 'Please enter a valid
\* email address' and 'a@b.com' passes.
C16_FirstFailingRuleWins ==
    [][\A i \in FieldIdx("support-form") :
          Blur("support-form", i) =>
              LET d == FormFields("support-form")[i]
                  raw == fields["support-form"][i]
                  after == errors'["support-form"]
              IN /\ after.fld[i].error <=> ~Passes(d, raw)
                 /\ ~Passes(d, raw) =>
                       /\ after.msg[d.parent].visible
                       /\ after.msg[d.parent].text = FirstMessage(d, Trim(raw))
                 /\ (d.type = "email" /\ raw = <<"a", "@", "b">>) =>
                       /\ after.fld[i].error
                       /\ after.msg[d.parent].text = "Please enter a valid email address"
                 /\ (d.type = "email" /\ raw = <<"a", "@", "b", ".", "c", "o", "m">>) =>
                       ~after.fld[i].error]_vars

C16_Witness ==
    /\ page = "ready"
    /\ fields["support-form"][2] = <<"a", "@", "b">>
    /\ errors["support-form"].fld[2].error
    /\ errors["support-form"].msg["g-contact"].visible
    /\ errors["support-form"].msg["g-contact"].text = "Please enter a valid email address"
    /\ fields["support-form"][3] = <<"1", "a">>
    /\ errors["support-form"].msg["g-phone"].text = "Please enter a valid phone number"

\* C17: a blur over a field whose value passes every rule leaves the field
\* without error class, aria-invalid and aria-describedby and its error
\* message not visible, also when the field carried an error before; and
\* validating the field once more returns true and changes nothing.
C17_ValidFieldIsCleared ==
    [][\A f \in FormsInPlay : \A i \in FieldIdx(f) :
          (Blur(f, i) /\ Passes(FormFields(f)[i], fields[f][i]))
          => LET after == errors'[f] IN
             /\ after.fld[i] = NoFieldError
             /\ ~after.msg[FormFields(f)[i].parent].visible
             /\ validateField(f, i, fields'[f], after) = [ok |-> TRUE, e |-> after]]_vars

C17_Witness ==
    /\ lastEvent = Ev("blur", "join-form", TRUE, {}, "", NoItems)
    /\ fields["join-form"][2] = <<>>
    /\ errors["join-form"].fld[2] = NoFieldError
    /\ errors["join-form"].msg["g-email"].exists
    /\ ~errors["join-form"].msg["g-email"].visible

----------------------------------------------------------------------------
(* SpecTwoForms: the join form and the support form on one page, each      *)
(* with a stored draft of its own or none.                                 *)

JoinDraft == DraftText([name |-> <<"a", "b">>], Epoch0 - 1)
SupportDraft ==
    DraftText([message |-> <<"h", "i">>,
               contact |-> <<"a", "@", "b", ".", "c", "o", "m">>], Epoch0 - 2)
TwoFormStores ==
    {Consented @@ j @@ s :
        j \in {NoItems} \cup One(FormKey("join-form"), {JoinDraft}),
        s \in {NoItems} \cup One(FormKey("support-form"), {SupportDraft})}

InitTwoForms == InitPage(TwoFormStores, {1024}, {"part000"}, {"ok"})

\* The user types a valid value into the first field of each form: the name
\* of the join form, the message of the support form.
Operated(f) == {1}
Entered(f) == IF f = "join-form" THEN {<<"a", "b">>} ELSE {<<"h", "i">>}

NextTwoForms ==
    \/ DOMContentLoaded
    \/ Reload
    \/ \E f \in Forms : \E i \in Operated(f) : \E v \in Entered(f) : InputEvent(f, i, v)
    \/ \E f \in Forms : Submit(f)
    \/ \E k \in 1..MaxTimers : TimerFire(k)
    \/ \E d \in FormJumps : Advance(d)

SpecTwoForms == InitTwoForms /\ [][NextTwoForms]_vars

\* The store holds the same thing under key k before and after.
SameRecord(before, after, k) ==
    /\ Has(before, k) <=> Has(after, k)
    /\ Has(before, k) => before[k] = after[k]

\* A step of form f's controller: an input event, a submit, or one of the
\* timers the controller has set.
OnForm(f) ==
    \/ \E i \in FieldIdx(f) : \E v \in FormFields(f)[i].typed : InputEvent(f, i, v)
    \/ Submit(f)
    \/ \E k \in 1..Len(timers) : timers[k].form = f /\ TimerFire(k)

\* C18: with controllers on join-form and support-form, no input, submit
\* (with its draft removal), save or reset of one form creates, changes or
\* removes the record formData_<id> of the other form or changes the other
\* form's field values; and the restore at page load changes no record and
\* leaves a form without a record of its own at its defaults, whatever the
\* other form's record holds.
C18_FormsDoNotInteract ==
    [][\A f \in Forms : \A g \in Forms \ {f} :
          /\ OnForm(f) =>
                /\ fields'[g] = fields[g]
                /\ SameRecord(localStorage, localStorage', FormKey(g))
          /\ DOMContentLoaded =>
                /\ SameRecord(localStorage, localStorage', FormKey(g))
                /\ ~Has(localStorage, FormKey(g)) => fields'[g] = Defaults(g)]_vars

\* The join form has been submitted and its draft removed while the support
\* form keeps the value typed into it and the draft saved for it.
C18_Witness ==
    /\ successNotices["join-form"] > 0
    /\ ~Has(localStorage, FormKey("join-form"))
    /\ Has(localStorage, FormKey("support-form"))
    /\ localStorage[FormKey("support-form")] # SupportDraft
    /\ fields["support-form"][1] = <<"h", "i">>
    /\ fields["join-form"][1] = <<"a", "b">>

----------------------------------------------------------------------------
(* SpecData: the two controls of DataManagement, over stores whose values  *)
(* are shorter than, as long as and longer than the preview, and a         *)
(* support form whose message the user types.                              *)

\* A stored draft whose message has n characters.
PadDraft(n) == DraftText([message |-> [k \in 1..n |-> "x"]], Epoch0)
PadBase == Len(stringify(PadDraft(0)))
PadLengths == {PreviewLength - PadBase - 1, PreviewLength - PadBase,
               PreviewLength - PadBase + 1}
DataStores ==
    {NoItems, Consented}
    \cup {Consented @@ d :
            d \in One(FormKey("support-form"), {PadDraft(n) : n \in PadLengths})}

\* The messages the user types: plain text, and text with a tag in it.
DataEntered == {<<"h", "i">>, <<"<", "b", ">">>}

InitData == InitPage(DataStores, {1024}, Builds, Modes)

NextData ==
    \/ DOMContentLoaded
    \/ Reload
    \/ ViewClick
    \/ ViewKey
    \/ \E k \in 1..MaxOverlays : ModalCloseClick(k)
    \/ ModalBackdropClick
    \/ EscapeKey
    \/ \E v \in DataEntered : InputEvent("support-form", 1, v)
    \/ \E c \in BOOLEAN : ClearClick(c)

SpecData == InitData /\ [][NextData]_vars

\* The preview of a stored string: the string itself up to 100 characters,
\* else its first 100 characters and '...'.
PreviewOf(value) ==
    IF Len(value) <= 100 THEN value
    ELSE SubSeq(value, 1, 100) \o <<".", ".", ".">>
\* How many items of the modal carry key k.
ItemsFor(modal, k) ==
    Cardinality({j \in 1..Len(modal.items) : modal.items[j].key = k})

\* C19: the modal that viewStoredData appends has exactly one item for each
\* key of the store and none for any other key, each item shows the preview
\* of the stored string, the 'no data' message stands in place of the list
\* exactly when the store is empty, and the store is after the activation
\* what it was before.
C19_ListsEveryKeyWithPreview ==
    [][(ViewActivate /\ storageMode # "denied") =>
          LET modal == modals'[Len(modals')] IN
          /\ \A k \in DOMAIN localStorage : ItemsFor(modal, k) = 1
          /\ \A j \in 1..Len(modal.items) :
                /\ modal.items[j].key \in DOMAIN localStorage
                /\ modal.items[j].shown
                      = PreviewOf(stringify(localStorage[modal.items[j].key]))
          /\ modal.noData <=> DOMAIN localStorage = {}
          /\ modal.noData => modal.items = <<>>
          /\ localStorage' = localStorage]_vars

\* What both failure paths leave alone: no reload, no modal, no handler, no
\* change of the store (a denied store stays as it is).
StaysUsable ==
    /\ page' = "ready"
    /\ modals' = modals /\ overlays' = overlays /\ keyHandlers' = keyHandlers
    /\ localStorage' = localStorage
    /\ UNCHANGED <<privVars, timers, formVars>>

-----------------------------------------------------------------------------
(* SpecSubmit: the support form is filled in and submitted; its phone      *)
(* field and the field after it lie in one parent element.                 *)

InitSubmit == InitValidate

\* What the user types before a submit: into each field a value that passes
\* and, for the fields with a rule, values that fail different rules.
SubmitEntered(i) ==
    LET d == FormFields("support-form")[i] IN
    IF d.name = "message" THEN {<<"h", "i">>}
    ELSE IF d.name = "contact"
         THEN {<<"a", "@", "b">>, <<"a", "@", "b", ".", "c", "o", "m">>}
    ELSE IF d.name = "phone" THEN {<<"1", "a">>, <<"1", "2">>, <<"1", "2", "3">>}
    ELSE {}

NextSubmit ==
    \/ DOMContentLoaded
    \/ \E i \in FieldIdx("support-form") :
          \E v \in SubmitEntered(i) : InputEvent("support-form", i, v)
    \/ Submit("support-form")
    \/ Reload

SpecSubmit == InitSubmit /\ [][NextSubmit]_vars

\* C25: after handleSubmit has validated all fields of the form, every field
\* whose value fails a rule carries the error class and aria-invalid, and
\* the error message of its parent element is visible and shows that
\* field's own failure text, also where several fields lie in one parent.
C25_EveryFailedFieldShowsItsMessage ==
    [][Submit("support-form") =>
          \A i \in FieldIdx("support-form") :
             LET d == FormFields("support-form")[i]
                 raw == fields["support-form"][i]
                 after == errors'["support-form"]
             IN ~Passes(d, raw) =>
                   /\ after.fld[i].error
                   /\ after.fld[i].invalid
                   /\ after.msg[d.parent].visible
                   /\ after.msg[d.parent].text = FirstMessage(d, Trim(raw))]_vars

=============================================================================
